---- MODULE Spec2Model ----
(***************************************************************************)
(* Model of the attendance push subsystem of uhh-bap-v2:                   *)
(*   - the transaction queue kept in localStorage                          *)
(*     (lib/attendance-manager: add / updateStatus / clear / seed),        *)
(*   - the push cycle of the UHH connectivity page                         *)
(*     (handleScheduledPushToUHH) with its retry loop,                     *)
(*   - the React state the push handler reads through its render closure   *)
(*     (isPushing, activeSession) and the logout handler.                  *)
(***************************************************************************)
EXTENDS Integers, Sequences, FiniteSets, TLC

\* ---------------------------------------------------------------- bounds
\* number of concurrently existing invocations of handleScheduledPushToUHH
NumProcs == 2
\* number of transaction ids ever generated
MaxIds == 2
\* distinct transaction_time values
MaxTime == 2
\* number of queue calls that can be pending on the event loop at once
NumCallers == 2
\* number of transaction ids ever generated in the queue specification
MaxQueueIds == 4
\* length of the longest raw body the remote server answers with
MaxBody == 4
\* number of records stored when the draining of the queue starts
MaxPending == 3

\* ------------------------------------------------------ program constants
\* retry limit of the push loop
MAX_RETRIES == 2
\* retention bound of the stored list (5000 in the source, scaled down)
MAX_TRANSACTIONS_IN_STORAGE == 3
\* PUSH_BATCH_SIZE_OPTIONS (20..500 in the source, scaled down)
PUSH_BATCH_SIZE_OPTIONS == {1, 2}
\* number of samples written by seedSampleTransactions (45 in the source)
SEED_SAMPLES == 2
\* length of the snippet of a non-JSON body the relay passes on (500 in the
\* source, scaled down)
SNIPPET_LENGTH == 3

Procs == 1..NumProcs
Times == 1..MaxTime
UploadStatus == {"not_uploaded", "uploaded"}
TransactionType == {"check-in", "check-out"}
NoSession == "null"
Sessions == {"sid1"}
Callers == 1..NumCallers
\* no uhh_user_details key in localStorage
NoDetails == [present |-> FALSE]
\* the user details restored together with a stored session
RestoredDetails == [present |-> TRUE, username |-> "admin", db |-> "db1"]
NoCall == [name |-> "none"]
NoResponse == [kind |-> "none"]
NoResult == [returned |-> FALSE]
\* the two versions of the relay's route handler in the repository
Routes == {"route.ts", "part_004"}
NoRoute == "none"
NoRequest == [client |-> "none"]
NoAnswer == [kind |-> "none"]
NoReply == [status |-> 0]
\* request.headers.get('cookie') === null; no cookie in the browser
NoCookie == [present |-> FALSE]
\* what the password field can hold: nothing, or what the user typed
NoPassword == ""
Passwords == {"secret"}

VARIABLES
  txs,            \* localStorage['app_attendance_transactions'] as a list
  nextId,         \* next fresh transaction id
  activeSession,  \* React state activeSession (NoSession = null)
  isPushing,      \* React state isPushing (latest value set)
  rendered,       \* the state values captured by the closures of the last render
  pushBatchSize,  \* React state pushBatchSize (parsed)
  pc,            \* per invocation: position in handleScheduledPushToUHH
  batchToPush,    \* per invocation: local batchToPush
  attempt,        \* per invocation: loop counter
  outcome,        \* per invocation: the exit path taken
  sent,           \* per invocation: payloads submitted in this cycle (history)
  resps,          \* per invocation: for each response received in this cycle,
                  \* whether it was a positive acknowledgement (history)
  foreign,        \* per invocation: the list was written by someone else since selection
  afterLogout,    \* per invocation: a logout happened during its retry wait (history)
  lastFailed,     \* the batch ids of the last cycle that ended Failed, valid while
                  \* no push was acknowledged and no record deleted since (history)
  qpc,            \* per queue call: the statement it executes next (0 = not running)
  qop,            \* per queue call: the function called and its arguments
  currentTransactions, \* per queue call: local currentTransactions
  running,        \* the queue call on the stack of the event loop (0 = none)
  listened,       \* allTransactions of the transactions page: what its listener
                  \* loaded last
  uhh_session_id,   \* localStorage['uhh_session_id'] (NoSession = no such key)
  uhh_user_details, \* localStorage['uhh_user_details']
  authpc,         \* position in handleTestConnection
  response,       \* the relay's answer to the last authentication request (history)
  result,         \* the TestConnectionResult returned by testUhhConnection
  isLoading,      \* React state isLoading
  password,       \* React state password: the content of the password field
  fetches,        \* number of requests the running authentication attempt has
                  \* sent to the relay (history)
  route,          \* which of the two versions of the relay's route is deployed
  relaypc,        \* position of the relay's POST handler
  request,        \* the request the relay is handling
  outbound,       \* the requests the handler has sent to the remote server (history)
  upstream,       \* how the remote server answered (history)
  reply,          \* the response of the relay
  parsedJson,     \* the handler has called odooResponse.json() (history)
  jar             \* the browser's cookie for the origin of the application

pushVars == <<isPushing, rendered, pushBatchSize, pc, batchToPush, attempt,
              outcome, sent, resps, foreign, afterLogout, lastFailed>>

queueVars == <<qpc, qop, currentTransactions, running, listened>>

storeVars == <<uhh_session_id, uhh_user_details>>

authVars == <<authpc, response, result, isLoading, password, fetches>>

relayVars == <<route, relaypc, request, outbound, upstream, reply, parsedJson, jar>>

vars == <<txs, nextId, activeSession, pushVars, queueVars, storeVars, authVars,
          relayVars>>

\* ------------------------------------------------------------ list helpers
Min(a, b) == IF a < b THEN a ELSE b

\* Array.prototype.slice(0, n)
Take(s, n) == SubSeq(s, 1, Min(n, Len(s)))

Range(s) == {s[i] : i \in 1..Len(s)}

Ids(s) == {s[i].id : i \in 1..Len(s)}

\* Array.prototype.map(t => t.id)
IdSeq(s) == [i \in 1..Len(s) |-> s[i].id]

\* one step of a stable sort by transaction_time descending: x, which came
\* after every element of s in the input, goes behind the elements that are
\* not older than it
InsertDesc(s, x) ==
  SelectSeq(s, LAMBDA e : e.transaction_time >= x.transaction_time)
    \o <<x>> \o
  SelectSeq(s, LAMBDA e : e.transaction_time < x.transaction_time)

RECURSIVE SortDesc(_)
\* Array.prototype.sort((a, b) => time(b) - time(a)), which is stable
SortDesc(s) ==
  IF s = <<>> THEN <<>>
  ELSE InsertDesc(SortDesc(SubSeq(s, 1, Len(s) - 1)), s[Len(s)])

\* ------------------------------------------------- the transaction queue
\* the record built by addAttendanceTransaction / seedSampleTransactions
NewTransaction(id, type, time, status) ==
  [id |-> id, employee_id |-> "EMP001", transaction_type |-> type,
   transaction_time |-> time, source_type |-> "biometric",
   device_id |-> "ZK-Device-01", status |-> status]

\* an add that prepends without sorting
addWithoutSort(list, newTransaction) ==
  Take(<<newTransaction>> \o list, MAX_TRANSACTIONS_IN_STORAGE)

\* the list addAttendanceTransaction writes back
addAttendanceTransaction(list, newTransaction) ==
  Take(SortDesc(<<newTransaction>> \o list), MAX_TRANSACTIONS_IN_STORAGE)

\* a test that matches every record as soon as some id is given
IncludesAny(transactionIds, transaction) == Len(transactionIds) > 0

\* transactionIds.includes(transaction.id)
Includes(transactionIds, transaction) ==
  transaction.id \in Range(transactionIds)

\* an update that writes back the records it was given and no others
updateKeepingMatched(list, transactionIds, newStatus) ==
  LET matched == SelectSeq(list, LAMBDA t : Includes(transactionIds, t))
  IN  [list |-> [i \in 1..Len(matched) |-> [matched[i] EXCEPT !.status = newStatus]],
       updatedCount |-> Len(matched), wrote |-> TRUE]

\* an update that writes the other status to the records it was not given
updateResettingOthers(list, transactionIds, newStatus) ==
  [list |-> [i \in 1..Len(list) |->
               IF Includes(transactionIds, list[i])
               THEN [list[i] EXCEPT !.status = newStatus]
               ELSE [list[i] EXCEPT !.status = "not_uploaded"]],
   updatedCount |-> Len(list), wrote |-> TRUE]

\* updateAttendanceTransactionStatus: the list after the call, the value of
\* updatedCount it logs, and whether it wrote the list and fired the event
updateAttendanceTransactionStatus(list, transactionIds, newStatus) ==
  IF Len(transactionIds) = 0
  THEN [list |-> list, updatedCount |-> 0, wrote |-> FALSE]
  ELSE LET mapped == [i \in 1..Len(list) |->
                        IF Includes(transactionIds, list[i])
                        THEN [list[i] EXCEPT !.status = newStatus]
                        ELSE list[i]]
           updatedCount == Cardinality({i \in 1..Len(list) :
                              Includes(transactionIds, list[i])})
       IN  IF updatedCount > 0
           THEN [list |-> mapped, updatedCount |-> updatedCount, wrote |-> TRUE]
           ELSE [list |-> list, updatedCount |-> 0, wrote |-> FALSE]

\* ------------------------------------------------------- the push cycle
\* a selection that forgets the status filter
NotFiltered(list) == list

\* allTransactions.filter(t => t.status === 'not_uploaded')
NotUploaded(list) == SelectSeq(list, LAMBDA t : t.status = "not_uploaded")

\* a slice that takes one record too many
SelectBatchOneMore(list, batchSize) == Take(NotUploaded(list), batchSize + 1)

\* notUploadedTransactions.slice(0, batchSize)
SelectBatch(list, batchSize) == Take(NotUploaded(list), batchSize)

\* odooFormattedBatch: the wire shape of a batch
OdooFormat(batch) ==
  [i \in 1..Len(batch) |->
     [employee_external_id |-> batch[i].employee_id,
      timestamp |-> batch[i].transaction_time,
      action |-> IF batch[i].transaction_type = "check-in" THEN "sign_in" ELSE "sign_out",
      device_id |-> batch[i].device_id]]

\* what the remote side can answer to one submission: fetch rejects, or the
\* relay answers with ok / not ok and a body whose 'result' is absent, a
\* boolean, or an object with optional success and processed_count
\* (processed_count -1 stands for "not a number"); a body that is not JSON
\* is replaced by { error: ... }, whose result is absent
Results ==
  {[tag |-> "absent"], [tag |-> "true"], [tag |-> "false"]}
  \cup {[tag |-> "object", success |-> TRUE, processed_count |-> -1]}
  \cup {[tag |-> "object", success |-> FALSE, processed_count |-> n] : n \in {-1, 0, 1}}

Responses ==
  {[kind |-> "throw"]}
  \cup {[kind |-> "http", ok |-> TRUE, result |-> r] : r \in Results}
  \cup {[kind |-> "http", ok |-> FALSE, result |-> r] :
          r \in {[tag |-> "absent"], [tag |-> "true"]}}

\* odooResult && (odooResult === true || odooResult.success ||
\*   (typeof odooResult.processed_count === 'number' && odooResult.processed_count > 0))
SuccessMarker(odooResult) ==
  /\ odooResult.tag \in {"true", "object"}
  /\ \/ odooResult.tag = "true"
     \/ odooResult.tag = "object" /\ odooResult.success
     \/ odooResult.tag = "object" /\ odooResult.processed_count > 0

\* what the remote contract calls a positive acknowledgement of a
\* submission: an HTTP-OK answer whose result is true, has a true success
\* flag or reports a positive processed count
Positive(r) ==
  /\ r.kind = "http"
  /\ r.ok = TRUE
  /\ \/ r.result = [tag |-> "true"]
     \/ r.result.tag = "object" /\ (r.result.success = TRUE \/ r.result.processed_count >= 1)

\* a loop body that forgets to test proxyResponse.ok
AcknowledgedIgnoringOk(r) ==
  /\ r.kind = "http"
  /\ SuccessMarker(r.result)

\* the branch of the loop body that calls updateAttendanceTransactionStatus
Acknowledged(r) ==
  /\ r.kind = "http"
  /\ r.ok
  /\ SuccessMarker(r.result)

\* a loop that gives up after the first failure
RetryNever(att) == att < 1

\* a loop whose bound is off by one
RetryOnceMore(att) == att <= MAX_RETRIES

\* !success && attempt < MAX_RETRIES, and the loop condition
RetryAllowed(att) == att < MAX_RETRIES

\* a retry that selects its batch again
RetryBatchReselected(p) == Take(NotUploaded(txs), pushBatchSize)

\* the payload a retry submits: the pushPayload built before the loop
RetryBatch(p) == batchToPush[p]

\* the invocation is between its selection and its return
Active(p) == pc[p] \in {"await", "wait"}

\* the closure values of a render of the page
RenderOf(pushing, session) == [isPushing |-> pushing, activeSession |-> session]

NoBatch == [valid |-> FALSE, ids |-> <<>>]

\* ------------------------------------------------------------------ Init
Init ==
  /\ txs = <<>>
  /\ nextId = 1
  /\ activeSession \in Sessions \cup {NoSession}
  /\ isPushing = FALSE
  /\ rendered = RenderOf(FALSE, activeSession)
  /\ pushBatchSize \in PUSH_BATCH_SIZE_OPTIONS
  /\ pc = [p \in Procs |-> "idle"]
  /\ batchToPush = [p \in Procs |-> <<>>]
  /\ attempt = [p \in Procs |-> 0]
  /\ outcome = [p \in Procs |-> "None"]
  /\ sent = [p \in Procs |-> <<>>]
  /\ resps = [p \in Procs |-> <<>>]
  /\ foreign = [p \in Procs |-> FALSE]
  /\ afterLogout = [p \in Procs |-> FALSE]
  /\ lastFailed = NoBatch
  /\ qpc = [k \in Callers |-> 0]
  /\ qop = [k \in Callers |-> NoCall]
  /\ currentTransactions = [k \in Callers |-> <<>>]
  /\ running = 0
  /\ listened = <<>>
  /\ uhh_session_id = activeSession
  /\ uhh_user_details = IF activeSession = NoSession THEN NoDetails ELSE RestoredDetails
  /\ authpc = "idle"
  /\ response = NoResponse
  /\ result = NoResult
  /\ isLoading = FALSE
  /\ password = NoPassword
  /\ fetches = 0
  /\ route = NoRoute
  /\ relaypc = "down"
  /\ request = NoRequest
  /\ outbound = <<>>
  /\ upstream = NoAnswer
  /\ reply = NoReply
  /\ parsedJson = FALSE
  /\ jar = NoCookie

\* ------------------------------------------------------- queue operations
\* every cycle in flight learns that the list was written by someone else
Written == [q \in Procs |-> foreign[q] \/ Active(q)]

\* addAttendanceTransaction(transactionData) called by an ingestion source
Enqueue(type, time, status) ==
  /\ nextId <= MaxIds
  /\ txs' = addAttendanceTransaction(txs, NewTransaction(nextId, type, time, status))
  /\ nextId' = nextId + 1
  /\ foreign' = Written
  /\ lastFailed' = IF Ids(txs) \subseteq Ids(txs') THEN lastFailed ELSE NoBatch
  /\ UNCHANGED <<activeSession, isPushing, rendered, pushBatchSize, pc,
                 batchToPush, attempt, outcome, sent, resps, afterLogout>>
  /\ UNCHANGED <<queueVars, storeVars, authVars, relayVars>>

\* clearAttendanceTransactions()
Clear ==
  /\ txs' = <<>>
  /\ foreign' = Written
  /\ lastFailed' = NoBatch
  /\ UNCHANGED <<nextId, activeSession, isPushing, rendered, pushBatchSize, pc,
                 batchToPush, attempt, outcome, sent, resps, afterLogout>>
  /\ UNCHANGED <<queueVars, storeVars, authVars, relayVars>>

\* the samples seedSampleTransactions builds: SEED_SAMPLES records with fresh
\* ids, random times and random statuses
SeedLists ==
  {[i \in 1..SEED_SAMPLES |->
      NewTransaction(nextId + i - 1,
                     IF i % 3 = 0 THEN "check-out" ELSE "check-in", tm[i], st[i])] :
     tm \in [1..SEED_SAMPLES -> Times], st \in [1..SEED_SAMPLES -> UploadStatus]}

\* seedSampleTransactions()
Seed ==
  /\ Len(txs) = 0
  /\ nextId + SEED_SAMPLES - 1 <= MaxIds
  /\ \E samples \in SeedLists :
       txs' = Take(SortDesc(samples), MAX_TRANSACTIONS_IN_STORAGE)
  /\ nextId' = nextId + SEED_SAMPLES
  /\ foreign' = Written
  /\ lastFailed' = NoBatch
  /\ UNCHANGED <<activeSession, isPushing, rendered, pushBatchSize, pc,
                 batchToPush, attempt, outcome, sent, resps, afterLogout>>
  /\ UNCHANGED <<queueVars, storeVars, authVars, relayVars>>

\* ------------------------------------------------------------ page state
\* React commits a re-render: new closures capture the current state
Render ==
  /\ rendered # RenderOf(isPushing, activeSession)
  /\ rendered' = RenderOf(isPushing, activeSession)
  /\ UNCHANGED <<txs, nextId, activeSession, isPushing, pushBatchSize, pc,
                 batchToPush, attempt, outcome, sent, resps, foreign,
                 afterLogout, lastFailed>>
  /\ UNCHANGED <<queueVars, storeVars, authVars, relayVars>>

\* handleLogout, reachable through the button of the active-session panel
handleLogout ==
  /\ rendered.activeSession # NoSession
  /\ activeSession' = NoSession
  /\ afterLogout' = [p \in Procs |-> afterLogout[p] \/ pc[p] = "wait"]
  /\ uhh_session_id' = NoSession
  /\ uhh_user_details' = NoDetails
  /\ password' = NoPassword
  /\ UNCHANGED <<txs, nextId, isPushing, rendered, pushBatchSize, pc,
                 batchToPush, attempt, outcome, sent, resps, foreign,
                 lastFailed>>
  /\ UNCHANGED <<queueVars, authpc, response, result, isLoading, fetches, relayVars>>

\* --------------------------------------------- handleScheduledPushToUHH
\* the invocation returns: its exit path, the number of submissions it made
\* and the answers it got stay visible, its other locals are gone
Exit(p, how) ==
  /\ pc' = [pc EXCEPT ![p] = "done"]
  /\ outcome' = [outcome EXCEPT ![p] = how]
  /\ batchToPush' = [batchToPush EXCEPT ![p] = <<>>]
  /\ sent' = [sent EXCEPT ![p] = <<>>]
  /\ afterLogout' = [afterLogout EXCEPT ![p] = FALSE]

\* the 'Push Attendance Data Now' button is enabled
PushButtonEnabled == ~rendered.isPushing /\ rendered.activeSession # NoSession

\* an invocation runs from its call to its first await: the two guards, the
\* selection and, with a non-empty selection, the first submission
Trigger(p, manual) ==
  /\ pc[p] \in {"idle", "done"}
  /\ manual => PushButtonEnabled
  /\ UNCHANGED <<txs, nextId, activeSession, rendered, pushBatchSize, lastFailed>>
  /\ UNCHANGED <<queueVars, storeVars, authVars, relayVars>>
  /\ IF rendered.activeSession = NoSession
     THEN /\ Exit(p, "NoSession")
          /\ attempt' = [attempt EXCEPT ![p] = 0]
          /\ resps' = [resps EXCEPT ![p] = <<>>]
          /\ UNCHANGED <<isPushing, foreign>>
     ELSE IF rendered.isPushing
     THEN /\ Exit(p, "AlreadyRunning")
          /\ attempt' = [attempt EXCEPT ![p] = 0]
          /\ resps' = [resps EXCEPT ![p] = <<>>]
          /\ UNCHANGED <<isPushing, foreign>>
     ELSE IF Len(NotUploaded(txs)) = 0
     THEN /\ Exit(p, "NothingToDo")
          /\ isPushing' = FALSE
          /\ attempt' = [attempt EXCEPT ![p] = 0]
          /\ resps' = [resps EXCEPT ![p] = <<>>]
          /\ UNCHANGED foreign
     ELSE /\ isPushing' = TRUE
          /\ batchToPush' = [batchToPush EXCEPT ![p] = SelectBatch(txs, pushBatchSize)]
          /\ attempt' = [attempt EXCEPT ![p] = 1]
          /\ outcome' = [outcome EXCEPT ![p] = "None"]
          /\ pc' = [pc EXCEPT ![p] = "await"]
          /\ sent' = [sent EXCEPT ![p] = <<OdooFormat(SelectBatch(txs, pushBatchSize))>>]
          /\ resps' = [resps EXCEPT ![p] = <<>>]
          /\ UNCHANGED <<foreign, afterLogout>>

\* the awaited fetch settles with r and the rest of the loop body runs, up
\* to the retry wait or to the end of the function
HandleResponse(p, r) ==
  /\ pc[p] = "await"
  /\ UNCHANGED <<nextId, activeSession, rendered, pushBatchSize, attempt>>
  /\ UNCHANGED <<queueVars, storeVars, authVars, relayVars>>
  /\ IF Acknowledged(r)
     THEN LET upd == updateAttendanceTransactionStatus(txs, IdSeq(batchToPush[p]), "uploaded")
          IN  /\ txs' = upd.list
              /\ foreign' = [q \in Procs |-> q # p /\ (foreign[q] \/ (upd.wrote /\ Active(q)))]
              /\ lastFailed' = NoBatch
              /\ Exit(p, "Uploaded")
              /\ resps' = [resps EXCEPT ![p] = Append(@, Positive(r))]
              /\ isPushing' = FALSE
     ELSE IF RetryAllowed(attempt[p])
     THEN /\ pc' = [pc EXCEPT ![p] = "wait"]
          /\ resps' = [resps EXCEPT ![p] = Append(@, Positive(r))]
          /\ UNCHANGED <<txs, foreign, lastFailed, outcome, isPushing, batchToPush,
                         sent, afterLogout>>
     ELSE /\ Exit(p, "Failed")
          /\ resps' = [resps EXCEPT ![p] = Append(@, Positive(r))]
          /\ foreign' = [foreign EXCEPT ![p] = FALSE]
          /\ isPushing' = FALSE
          /\ lastFailed' = [valid |-> TRUE, ids |-> IdSeq(batchToPush[p])]
          /\ UNCHANGED txs

\* the 3 second retry delay elapses: attempt++ and the next submission
RetryTimer(p) ==
  /\ pc[p] = "wait"
  /\ attempt' = [attempt EXCEPT ![p] = @ + 1]
  /\ pc' = [pc EXCEPT ![p] = "await"]
  /\ sent' = [sent EXCEPT ![p] = Append(@, OdooFormat(RetryBatch(p)))]
  /\ UNCHANGED <<txs, nextId, activeSession, isPushing, rendered, pushBatchSize,
                 batchToPush, outcome, resps, foreign, afterLogout, lastFailed>>
  /\ UNCHANGED <<queueVars, storeVars, authVars, relayVars>>

\* ------------------------------------------------------------------ Next
Next ==
  \/ \E ty \in TransactionType, tm \in Times, st \in UploadStatus : Enqueue(ty, tm, st)
  \/ Clear
  \/ Seed
  \/ Render
  \/ handleLogout
  \/ \E p \in Procs, manual \in BOOLEAN : Trigger(p, manual)
  \/ \E p \in Procs, r \in Responses : HandleResponse(p, r)
  \/ \E p \in Procs : RetryTimer(p)

Spec == Init /\ [][Next]_vars

\* the scheduling of the push cycle: an awaited fetch settles (the relay
\* answers or the fetch rejects), the timer of the retry delay fires, and
\* React commits the re-render a state change has asked for
PushFairness ==
  /\ \A p \in Procs : WF_vars(\E r \in Responses : HandleResponse(p, r))
  /\ \A p \in Procs : WF_vars(RetryTimer(p))
  /\ WF_vars(Render)

\* the push cycle under that scheduling, with records enqueued and the list
\* cleared while cycles run
LiveInit ==
  /\ Init
  /\ pushBatchSize = 1

LiveNext ==
  \/ \E tm \in Times : Enqueue("check-in", tm, "not_uploaded")
  \/ Clear
  \/ Render
  \/ handleLogout
  \/ \E p \in Procs, manual \in BOOLEAN : Trigger(p, manual)
  \/ \E p \in Procs, r \in Responses : HandleResponse(p, r)
  \/ \E p \in Procs : RetryTimer(p)

LiveSpec == LiveInit /\ [][LiveNext]_vars /\ PushFairness

\* ------------------------------------------------------- draining the queue
\* the lists the attendance manager can hold: up to MaxPending records with
\* distinct ids, newest first, of either status
StoredLists ==
  UNION {{SortDesc([i \in 1..n |-> NewTransaction(i, "check-in", tm[i], st[i])]) :
            tm \in [1..n -> Times], st \in [1..n -> UploadStatus]} :
         n \in 0..Min(MaxPending, MAX_TRANSACTIONS_IN_STORAGE)}

\* the page with a restored session and a stored list, no cycle started yet
DrainInit ==
  /\ txs \in StoredLists
  /\ nextId = Len(txs) + 1
  /\ activeSession \in Sessions
  /\ isPushing = FALSE
  /\ rendered = RenderOf(FALSE, activeSession)
  /\ pushBatchSize \in PUSH_BATCH_SIZE_OPTIONS
  /\ pc = [p \in Procs |-> "idle"]
  /\ batchToPush = [p \in Procs |-> <<>>]
  /\ attempt = [p \in Procs |-> 0]
  /\ outcome = [p \in Procs |-> "None"]
  /\ sent = [p \in Procs |-> <<>>]
  /\ resps = [p \in Procs |-> <<>>]
  /\ foreign = [p \in Procs |-> FALSE]
  /\ afterLogout = [p \in Procs |-> FALSE]
  /\ lastFailed = NoBatch
  /\ qpc = [k \in Callers |-> 0]
  /\ qop = [k \in Callers |-> NoCall]
  /\ currentTransactions = [k \in Callers |-> <<>>]
  /\ running = 0
  /\ listened = <<>>
  /\ uhh_session_id = activeSession
  /\ uhh_user_details = RestoredDetails
  /\ authpc = "idle"
  /\ response = NoResponse
  /\ result = NoResult
  /\ isLoading = FALSE
  /\ password = NoPassword
  /\ fetches = 0
  /\ route = NoRoute
  /\ relaypc = "down"
  /\ request = NoRequest
  /\ outbound = <<>>
  /\ upstream = NoAnswer
  /\ reply = NoReply
  /\ parsedJson = FALSE
  /\ jar = NoCookie

\* the relay's answers that handleScheduledPushToUHH takes as acknowledgements
Acknowledgements == {r \in Responses : Acknowledged(r)}

\* the session stays, nothing is enqueued or cleared, and every submission
\* is acknowledged
DrainNext ==
  \/ Render
  \/ \E p \in Procs, manual \in BOOLEAN : Trigger(p, manual)
  \/ \E p \in Procs, r \in Acknowledgements : HandleResponse(p, r)

\* cycles keep being triggered, every awaited fetch settles and React
\* re-renders
DrainFairness ==
  /\ WF_vars(Render)
  /\ \A p \in Procs : WF_vars(\E manual \in BOOLEAN : Trigger(p, manual))
  /\ \A p \in Procs : WF_vars(\E r \in Acknowledgements : HandleResponse(p, r))

DrainSpec == DrainInit /\ [][DrainNext]_vars /\ DrainFairness

TypeOK ==
  /\ nextId \in 1..MaxIds + 1
  /\ Len(txs) <= MAX_TRANSACTIONS_IN_STORAGE
  /\ \A p \in Procs : pc[p] \in {"idle", "await", "wait", "done"}

\* ========================================= the queue, statement by statement
\* The functions of the attendance manager as the event loop runs them: a
\* call is a task; its statements run one after the other, and no other task
\* runs until the function has returned or suspended.

\* functions that await something between their read and their write
SuspendsAfterRead(name) == TRUE

\* the functions never suspend between their read and their write: they are
\* plain (non-async) functions without an await
Suspends(name) == FALSE

\* functions that dispatch the event before they write
StatementsNotifyFirst(name) ==
  CASE name = "addAttendanceTransaction" -> <<"getItem", "dispatchEvent", "setItem">>
    [] name = "updateAttendanceTransactionStatus" -> <<"getItem", "dispatchEvent", "setItem">>
    [] name = "seedSampleTransactions" -> <<"getItem", "dispatchEvent", "setItem">>
    [] name = "clearAttendanceTransactions" -> <<"dispatchEvent", "removeItem">>
    [] OTHER -> <<>>

\* the storage and event statements of each function, in program order
Statements(name) ==
  CASE name = "addAttendanceTransaction" -> <<"getItem", "setItem", "dispatchEvent">>
    [] name = "updateAttendanceTransactionStatus" -> <<"getItem", "setItem", "dispatchEvent">>
    [] name = "seedSampleTransactions" -> <<"getItem", "setItem", "dispatchEvent">>
    [] name = "clearAttendanceTransactions" -> <<"removeItem", "dispatchEvent">>
    [] OTHER -> <<>>

\* the statement call k executes next
Statement(k) ==
  IF qpc[k] \in 1..Len(Statements(qop[k].name))
  THEN Statements(qop[k].name)[qpc[k]]
  ELSE "none"

\* the event loop lets call k run: it is on the stack, or the stack is empty
Scheduled(k) == running = k \/ running = 0

\* the calls the program makes: an ingestion source adds a transaction, the
\* push cycle marks the batch it selected as uploaded, the transactions page
\* clears or seeds
QueueCalls ==
  {[name |-> "addAttendanceTransaction",
    newTransaction |-> NewTransaction(nextId, "check-in", tm, st)] :
      tm \in Times, st \in UploadStatus}
  \cup {[name |-> "updateAttendanceTransactionStatus",
         transactionIds |-> IdSeq(SelectBatch(txs, b)),
         newStatus |-> "uploaded"] : b \in PUSH_BATCH_SIZE_OPTIONS}
  \cup {[name |-> "clearAttendanceTransactions"]}
  \cup {[name |-> "seedSampleTransactions"]}

\* a caller calls a function of the attendance manager: the task is queued;
\* addAttendanceTransaction builds newTransaction with its fresh id at once
Call(k, call) ==
  /\ qpc[k] = 0
  /\ call \in QueueCalls
  /\ call.name = "addAttendanceTransaction" => nextId <= MaxQueueIds
  /\ qpc' = [qpc EXCEPT ![k] = 1]
  /\ qop' = [qop EXCEPT ![k] = call]
  /\ nextId' = IF call.name = "addAttendanceTransaction" THEN nextId + 1 ELSE nextId
  /\ UNCHANGED <<txs, currentTransactions, running, listened>>
  /\ UNCHANGED <<activeSession, pushVars, storeVars, authVars, relayVars>>

\* call k, having read or kept the list read, goes on to its next statement,
\* or returns after its last one; a returned call leaves only its function's
\* name behind
Advance(k, read, returns, suspends) ==
  IF returns \/ qpc[k] = Len(Statements(qop[k].name))
  THEN /\ qpc' = [qpc EXCEPT ![k] = 0]
       /\ qop' = [qop EXCEPT ![k] = [name |-> qop[k].name]]
       /\ currentTransactions' = [currentTransactions EXCEPT ![k] = <<>>]
       /\ running' = 0
  ELSE /\ qpc' = [qpc EXCEPT ![k] = qpc[k] + 1]
       /\ qop' = qop
       /\ currentTransactions' = [currentTransactions EXCEPT ![k] = read]
       /\ running' = IF suspends THEN 0 ELSE k

\* the early returns after the read: seeding skipped because transactions
\* exist, or updatedCount = 0
ReturnsAfterRead(call, list) ==
  CASE call.name = "seedSampleTransactions" -> Len(list) > 0
    [] call.name = "updateAttendanceTransactionStatus" ->
         ~updateAttendanceTransactionStatus(list, call.transactionIds, call.newStatus).wrote
    [] OTHER -> FALSE

\* getAttendanceTransactions(): localStorage.getItem and JSON.parse
GetItem(k) ==
  /\ Scheduled(k)
  /\ Statement(k) = "getItem"
  /\ Advance(k, txs, ReturnsAfterRead(qop[k], txs), Suspends(qop[k].name))
  /\ UNCHANGED <<txs, nextId, listened>>
  /\ UNCHANGED <<activeSession, pushVars, storeVars, authVars, relayVars>>

\* the lists a call can write back, computed from the list it read (the
\* samples of seedSampleTransactions are random)
ToWrite(call, list) ==
  CASE call.name = "addAttendanceTransaction" ->
         {addAttendanceTransaction(list, call.newTransaction)}
    [] call.name = "updateAttendanceTransactionStatus" ->
         {updateAttendanceTransactionStatus(list, call.transactionIds, call.newStatus).list}
    [] call.name = "seedSampleTransactions" ->
         {Take(SortDesc(samples), MAX_TRANSACTIONS_IN_STORAGE) : samples \in SeedLists}
    [] OTHER -> {list}

\* localStorage.setItem(TRANSACTIONS_STORAGE_KEY, JSON.stringify(...)): the
\* whole key is overwritten
SetItem(k) ==
  /\ Scheduled(k)
  /\ Statement(k) = "setItem"
  /\ qop[k].name = "seedSampleTransactions" => nextId + SEED_SAMPLES - 1 <= MaxQueueIds
  /\ txs' \in ToWrite(qop[k], currentTransactions[k])
  /\ nextId' = IF qop[k].name = "seedSampleTransactions" THEN nextId + SEED_SAMPLES ELSE nextId
  /\ Advance(k, currentTransactions[k], FALSE, FALSE)
  /\ UNCHANGED listened
  /\ UNCHANGED <<activeSession, pushVars, storeVars, authVars, relayVars>>

\* localStorage.removeItem(TRANSACTIONS_STORAGE_KEY)
RemoveItem(k) ==
  /\ Scheduled(k)
  /\ Statement(k) = "removeItem"
  /\ txs' = <<>>
  /\ Advance(k, currentTransactions[k], FALSE, FALSE)
  /\ UNCHANGED <<nextId, listened>>
  /\ UNCHANGED <<activeSession, pushVars, storeVars, authVars, relayVars>>

\* the listener of the transactions page: loadAndSetTransactions
loadAndSetTransactions(list) == SortDesc(list)

\* window.dispatchEvent(new CustomEvent('attendanceTransactionsUpdated')):
\* the listeners run before dispatchEvent returns
DispatchEvent(k) ==
  /\ Scheduled(k)
  /\ Statement(k) = "dispatchEvent"
  /\ listened' = loadAndSetTransactions(txs)
  /\ Advance(k, currentTransactions[k], FALSE, FALSE)
  /\ UNCHANGED <<txs, nextId>>
  /\ UNCHANGED <<activeSession, pushVars, storeVars, authVars, relayVars>>

QueueInit ==
  /\ Init
  /\ activeSession = NoSession
  /\ pushBatchSize = 1

QueueNext ==
  \/ \E k \in Callers, call \in QueueCalls : Call(k, call)
  \/ \E k \in Callers : GetItem(k)
  \/ \E k \in Callers : SetItem(k)
  \/ \E k \in Callers : RemoveItem(k)
  \/ \E k \in Callers : DispatchEvent(k)

QueueSpec == QueueInit /\ [][QueueNext]_vars

\* ======================================================= authentication
\* testUhhConnection and handleTestConnection of the connectivity page.

\* the login name and database typed into the form
LoginName == "admin"
DbName == "db1"

Undefined == "undefined"

\* a cookie as it stands in a Set-Cookie value: name=value, then attributes
CookiePairs ==
  {[name |-> "session_id", value |-> v] : v \in {"", "false", "tokA"}}
  \cup {[name |-> "frontend_lang", value |-> "en_US"]}

\* a response sets at most one cookie of a name
OneSession(cookieSeq) ==
  Cardinality({i \in 1..Len(cookieSeq) : cookieSeq[i].name = "session_id"}) <= 1

\* a Set-Cookie header value as a string: one cookie, or several joined by
\* the relay's header map
CookieStrings ==
  {<<c>> : c \in CookiePairs}
  \cup {s \in {<<c, d>> : c, d \in CookiePairs} : OneSession(s)}

\* the values debug_headers can hold under the set-cookie key: a string
\* (possibly empty) or an array of strings
SetCookieValues ==
  {[tag |-> "string", str |-> s] : s \in CookieStrings \cup {<<>>}}
  \cup {[tag |-> "array", arr |-> <<<<c>>>>] : c \in CookiePairs}
  \cup {[tag |-> "array", arr |-> <<<<s[1]>>, <<s[2]>>>>] :
          s \in {t \in CookiePairs \X CookiePairs : OneSession(t)}}

NoHeaders == [tag |-> "null"]

\* responseBody.debug_headers: absent, or the header map of the relay
DebugHeaders ==
  {NoHeaders, [tag |-> "object", key |-> "content-type", value |-> [tag |-> "string", str |-> <<>>]]}
  \cup {[tag |-> "object", key |-> k, value |-> v] :
          k \in {"set-cookie", "Set-Cookie"}, v \in SetCookieValues}

\* responseData.result: absent, or an object with optional session_id and
\* username
AuthResults ==
  {[tag |-> "absent"]}
  \cup {[tag |-> "object", session_id |-> sid, username |-> u] :
          sid \in {Undefined, "", "false", "tokB"}, u \in {Undefined, "odoo_admin"}}

\* the bodies the relay can answer with: error is absent, a JSON-RPC error
\* object, or the relay's own error string
AuthBodies ==
  [debug_headers : DebugHeaders, error : {"absent", "object", "string"},
   result : AuthResults]

\* how the awaited fetch of testUhhConnection can settle: it rejects, or the
\* relay answers ok / not ok with a body that parses as JSON or does not
AuthResponses ==
  {[kind |-> "throw"]}
  \cup {[kind |-> "http", ok |-> ok, parsed |-> FALSE] : ok \in BOOLEAN}
  \cup {[kind |-> "http", ok |-> ok, parsed |-> TRUE, body |-> b] :
          ok \in BOOLEAN, b \in AuthBodies}

\* receivedDebugHeaders?.['set-cookie'] || receivedDebugHeaders?.['Set-Cookie']
setCookieHeader(headers) ==
  IF headers.tag = "object" /\ headers.key \in {"set-cookie", "Set-Cookie"}
  THEN headers.value
  ELSE [tag |-> "undefined"]

\* if (setCookieHeader): undefined and the empty string are falsy
Truthy(header) ==
  \/ header.tag = "array"
  \/ header.tag = "string" /\ header.str # <<>>

\* Array.isArray(setCookieHeader) ? setCookieHeader : [setCookieHeader]
Cookies(header) ==
  IF header.tag = "array" THEN header.arr ELSE <<header.str>>

\* cookieStr.match(/session_id=([^;]+)/): the value of the first cookie of
\* the string that is named session_id and has a non-empty value, or null
Match(cookieStr) ==
  LET hits == SelectSeq(cookieStr, LAMBDA c : c.name = "session_id" /\ c.value # "")
  IN  IF Len(hits) > 0 THEN [found |-> TRUE, value |-> hits[1].value]
      ELSE [found |-> FALSE]

\* match && match[1] && match[1] !== "false" && match[1] !== ""
Usable(match) ==
  /\ match.found
  /\ match.value # ""
  /\ match.value # "false"

Null == "null"

\* the loop over the cookies: sessionIdFromHeader
sessionIdFromHeader(headers) ==
  LET header == setCookieHeader(headers)
  IN  IF ~Truthy(header) THEN Null
      ELSE LET usable == SelectSeq(Cookies(header), LAMBDA str : Usable(Match(str)))
           IN  IF Len(usable) > 0 THEN Match(usable[1]).value ELSE Null

\* responseData.result?.session_id as a condition
BodySessionId(res) ==
  IF res.tag = "object" /\ res.session_id \notin {Undefined, ""}
  THEN res.session_id
  ELSE Null

\* a TestConnectionResult and the localStorage writes made before returning
\* it; message is the kind of message returned
Returned(success, message, sid, res, wrote, details) ==
  [result |-> [returned |-> TRUE, success |-> success, message |-> message,
               sessionIdFromHeader |-> sid, data |-> res.tag = "object"],
   wrote |-> wrote, session |-> sid, details |-> details]

NoData == [tag |-> "absent"]

\* userDetailsToStore of the header branch: username falls back to the login
HeaderDetails(res) ==
  [present |-> TRUE,
   username |-> IF res.tag = "object" /\ res.username # Undefined
                THEN res.username ELSE LoginName,
   db |-> DbName]

\* userDetailsToStore of the body branch: no fallback for the username
BodyDetails(res) ==
  [present |-> TRUE, username |-> res.username, db |-> DbName]

\* a version that looks for the token before it looks for the error
testTokenBeforeError(r) ==
  IF r.kind = "throw"
  THEN Returned(FALSE, "Client-side connection error", Null, NoData, FALSE, NoDetails)
  ELSE IF ~r.parsed
  THEN Returned(FALSE, "Failed to parse response from proxy", Null, NoData, FALSE, NoDetails)
  ELSE IF ~r.ok
  THEN Returned(FALSE, "Proxy or Odoo Server error", Null, NoData, FALSE, NoDetails)
  ELSE LET sid == sessionIdFromHeader(r.body.debug_headers)
           res == r.body.result
       IN  IF sid # Null
           THEN Returned(TRUE, "Authentication successful", sid, res, TRUE, HeaderDetails(res))
           ELSE IF r.body.error # "absent"
           THEN Returned(FALSE, "Authentication failed", Null, NoData, FALSE, NoDetails)
           ELSE Returned(FALSE, "Session ID not found", Null, NoData, FALSE, NoDetails)

\* a version that prefers the session id of the body
testBodyFirst(r) ==
  IF r.kind = "throw"
  THEN Returned(FALSE, "Client-side connection error", Null, NoData, FALSE, NoDetails)
  ELSE IF ~r.parsed
  THEN Returned(FALSE, "Failed to parse response from proxy", Null, NoData, FALSE, NoDetails)
  ELSE IF ~r.ok
  THEN Returned(FALSE, "Proxy or Odoo Server error", Null, NoData, FALSE, NoDetails)
  ELSE LET sid == sessionIdFromHeader(r.body.debug_headers)
           res == r.body.result
       IN  IF r.body.error # "absent"
           THEN Returned(FALSE, "Authentication failed", Null, NoData, FALSE, NoDetails)
           ELSE IF BodySessionId(res) # Null
           THEN Returned(TRUE, "Authentication successful", BodySessionId(res), res,
                         TRUE, BodyDetails(res))
           ELSE IF sid # Null
           THEN Returned(TRUE, "Authentication successful", sid, res, TRUE, HeaderDetails(res))
           ELSE Returned(FALSE, "Session ID not found", Null, NoData, FALSE, NoDetails)

\* a version that reports a missing token as a rejection
testMissingAsRejected(r) ==
  IF r.kind = "throw"
  THEN Returned(FALSE, "Client-side connection error", Null, NoData, FALSE, NoDetails)
  ELSE IF ~r.parsed
  THEN Returned(FALSE, "Failed to parse response from proxy", Null, NoData, FALSE, NoDetails)
  ELSE IF ~r.ok
  THEN Returned(FALSE, "Proxy or Odoo Server error", Null, NoData, FALSE, NoDetails)
  ELSE LET sid == sessionIdFromHeader(r.body.debug_headers)
           res == r.body.result
       IN  IF r.body.error # "absent"
           THEN Returned(FALSE, "Authentication failed", Null, NoData, FALSE, NoDetails)
           ELSE IF sid # Null
           THEN Returned(TRUE, "Authentication successful", sid, res, TRUE, HeaderDetails(res))
           ELSE IF BodySessionId(res) # Null
           THEN Returned(TRUE, "Authentication successful", BodySessionId(res), res,
                         TRUE, BodyDetails(res))
           ELSE Returned(FALSE, "Authentication failed", Null, NoData, FALSE, NoDetails)

\* a version without the outer catch: a rejected fetch is not turned into a
\* result
testThrowEscapes(r) ==
  IF r.kind = "throw"
  THEN [result |-> [returned |-> FALSE, success |-> FALSE, message |-> "uncaught",
                    sessionIdFromHeader |-> Null, data |-> FALSE],
        wrote |-> FALSE, session |-> Null, details |-> NoDetails]
  ELSE IF ~r.parsed
  THEN Returned(FALSE, "Failed to parse response from proxy", Null, NoData, FALSE, NoDetails)
  ELSE IF ~r.ok
  THEN Returned(FALSE, "Proxy or Odoo Server error", Null, NoData, FALSE, NoDetails)
  ELSE LET sid == sessionIdFromHeader(r.body.debug_headers)
           res == r.body.result
       IN  IF r.body.error # "absent"
           THEN Returned(FALSE, "Authentication failed", Null, NoData, FALSE, NoDetails)
           ELSE IF sid # Null
           THEN Returned(TRUE, "Authentication successful", sid, res, TRUE, HeaderDetails(res))
           ELSE IF BodySessionId(res) # Null
           THEN Returned(TRUE, "Authentication successful", BodySessionId(res), res,
                         TRUE, BodyDetails(res))
           ELSE Returned(FALSE, "Session ID not found", Null, NoData, FALSE, NoDetails)

\* testUhhConnection from the settling of its fetch to its return
testUhhConnection(r) ==
  IF r.kind = "throw"
  THEN Returned(FALSE, "Client-side connection error", Null, NoData, FALSE, NoDetails)
  ELSE IF ~r.parsed
  THEN Returned(FALSE, "Failed to parse response from proxy", Null, NoData, FALSE, NoDetails)
  ELSE IF ~r.ok
  THEN Returned(FALSE, "Proxy or Odoo Server error", Null, NoData, FALSE, NoDetails)
  ELSE LET sid == sessionIdFromHeader(r.body.debug_headers)
           res == r.body.result
       IN  IF r.body.error # "absent"
           THEN Returned(FALSE, "Authentication failed", Null, NoData, FALSE, NoDetails)
           ELSE IF sid # Null
           THEN Returned(TRUE, "Authentication successful", sid, res, TRUE, HeaderDetails(res))
           ELSE IF BodySessionId(res) # Null
           THEN Returned(TRUE, "Authentication successful", BodySessionId(res), res,
                         TRUE, BodyDetails(res))
           ELSE Returned(FALSE, "Session ID not found", Null, NoData, FALSE, NoDetails)

\* the password field's onChange: setPassword(e.target.value); the field is
\* disabled while a session is active or an attempt is loading
TypePassword(value) ==
  /\ rendered.activeSession = NoSession
  /\ ~isLoading
  /\ password # value
  /\ password' = value
  /\ UNCHANGED <<authpc, response, result, isLoading, fetches>>
  /\ UNCHANGED <<txs, nextId, activeSession, pushVars, queueVars, storeVars, relayVars>>

\* Boolean(uhhUrl && username && password && dbName), with the three other
\* fields filled in
canTestConnection == password # NoPassword

\* handleTestConnection up to its await: the button is rendered without an
\* active session; the guard, setIsLoading(true) and the request of
\* testUhhConnection to the relay
StartTestConnection ==
  /\ authpc = "idle"
  /\ rendered.activeSession = NoSession
  /\ canTestConnection
  /\ ~isLoading
  /\ isLoading' = TRUE
  /\ authpc' = "fetching"
  /\ fetches' = 1
  /\ UNCHANGED <<response, result, password>>
  /\ UNCHANGED <<txs, nextId, activeSession, pushVars, queueVars, storeVars, relayVars>>

\* the fetch of testUhhConnection settles with r; the function runs to its
\* return
AuthResponse(r) ==
  /\ authpc = "fetching"
  /\ LET ret == testUhhConnection(r)
     IN  /\ result' = ret.result
         /\ uhh_session_id' = IF ret.wrote THEN ret.session ELSE uhh_session_id
         /\ uhh_user_details' = IF ret.wrote THEN ret.details ELSE uhh_user_details
  /\ response' = r
  /\ authpc' = "returned"
  /\ UNCHANGED <<isLoading, password, fetches>>
  /\ UNCHANGED <<txs, nextId, activeSession, pushVars, queueVars, relayVars>>

\* the rest of handleTestConnection: setIsLoading(false) and the session
\* state; the function returns and its result is gone
FinishTestConnection ==
  /\ authpc = "returned"
  /\ isLoading' = FALSE
  /\ activeSession' =
       IF result.success /\ result.sessionIdFromHeader # Null /\ result.data
       THEN result.sessionIdFromHeader
       ELSE IF ~result.success THEN NoSession ELSE activeSession
  /\ password' =
       IF result.success /\ result.sessionIdFromHeader # Null /\ result.data
       THEN NoPassword
       ELSE password
  /\ authpc' = "idle"
  /\ fetches' = 0
  /\ response' = NoResponse
  /\ result' = NoResult
  /\ UNCHANGED <<txs, nextId, pushVars, queueVars, storeVars, relayVars>>

AuthInit ==
  /\ Init
  /\ pushBatchSize = 1

AuthNext ==
  \/ \E value \in Passwords \cup {NoPassword} : TypePassword(value)
  \/ StartTestConnection
  \/ \E r \in AuthResponses : AuthResponse(r)
  \/ FinishTestConnection
  \/ Render
  \/ handleLogout

AuthSpec == AuthInit /\ [][AuthNext]_vars

\* ================================================ the relay (api/uhh-proxy)
\* The POST handler of the relay between the page and the remote server, in
\* the two versions the repository holds, with the browser that sends the
\* page's requests to it and keeps the cookies of its responses.

\* a cookie header or Set-Cookie value: a string of cookie pairs
Cookie(str) == [present |-> TRUE, str |-> str]

SessionCookie(value) == <<[name |-> "session_id", value |-> value]>>

\* targetUrl of the request body: missing, or a string made of a scheme and
\* the rest; <<>> is the empty string
NoUrl == [present |-> FALSE]
TargetUrls ==
  {NoUrl}
  \cup {[present |-> TRUE, str |-> u] :
          u \in {<<>>, <<"uhh.example">>, <<"ftp://", "uhh.example">>,
                 <<"http://", "uhh.example">>, <<"https://", "uhh.example">>}}

\* the URL the page sends: uhhBaseUrl with the path of the endpoint
PageUrl == [present |-> TRUE, str |-> <<"https://", "uhh.example">>]

\* payload of the request body: missing, or the JSON-RPC call of the page
Payloads == {[present |-> FALSE], [present |-> TRUE]}

\* the requests that can reach the relay: the body parses as JSON or not
Requests ==
  {[client |-> "other", wellformed |-> w, targetUrl |-> u, payload |-> pl, cookie |-> c] :
     w \in BOOLEAN, u \in TargetUrls, pl \in Payloads,
     c \in {NoCookie, Cookie(<<>>), Cookie(SessionCookie("tokA"))}}

\* the content-type header of the remote answer: none, or a string made of
\* a media type and parameters
NoContentType == [present |-> FALSE]
ContentTypes ==
  {NoContentType}
  \cup {[present |-> TRUE, str |-> ct] :
          ct \in {<<>>, <<"text/html">>, <<"application/json">>,
                  <<"application/json", "; charset=utf-8">>}}

\* the header map captured from the remote answer
NoUpstreamHeaders == [contentType |-> NoContentType, setCookie |-> NoCookie]

\* the Set-Cookie values of the remote server
UpstreamCookies ==
  {NoCookie, Cookie(SessionCookie("tokA")), Cookie(SessionCookie("false"))}

\* the raw bodies of the remote server: strings of up to MaxBody characters
RECURSIVE Texts(_)
Texts(n) == IF n = 0 THEN {<<>>} ELSE Texts(n - 1) \cup {[i \in 1..n |-> "x"]}

\* what a JSON body of the remote server parses to: something that is not an
\* object, or an object with optional error, details and result
JsonValues ==
  {[tag |-> "value"]}
  \cup {[tag |-> "object", error |-> e, details |-> d, result |-> res] :
          e \in {"absent", "object", "Proxy request failed"},
          d \in {<<>>, <<"Request to Odoo server timed out.">>},
          res \in {[tag |-> "absent"],
                   [tag |-> "object", session_id |-> Undefined, username |-> "odoo_admin"],
                   [tag |-> "object", session_id |-> "tokB", username |-> "odoo_admin"]}}

\* how the relay's fetch of the target can settle: it rejects with an error
\* (timeout, connection refused, anything else), or the remote server
\* answers with a status, headers and a body that is valid JSON or not
UpstreamAnswers ==
  {[kind |-> "reject", name |-> nm, message |-> m] :
     nm \in {"AbortError", "TypeError"},
     m \in {<<"connect ", "ECONNREFUSED", " 10.0.0.1:8069">>, <<"fetch failed">>}}
  \cup {[kind |-> "http", status |-> st, headers |-> [contentType |-> ct, setCookie |-> sc],
         text |-> t, valid |-> FALSE, json |-> [tag |-> "value"]] :
          st \in {200, 500}, ct \in ContentTypes, sc \in UpstreamCookies,
          t \in Texts(MaxBody)}
  \cup {[kind |-> "http", status |-> st, headers |-> [contentType |-> ct, setCookie |-> sc],
         text |-> <<>>, valid |-> TRUE, json |-> j] :
          st \in {200, 500}, ct \in ContentTypes, sc \in UpstreamCookies,
          j \in JsonValues}

\* String.prototype.startsWith for a string made of parts
startsWith(str, prefix) == Len(str) > 0 /\ str[1] = prefix

\* String.prototype.includes for a string made of parts
includes(str, part) == \E i \in 1..Len(str) : str[i] = part

\* String.prototype.substring(0, n)
substring(str, n) == SubSeq(str, 1, Min(n, Len(str)))

\* a response of the relay: status, JSON body and the Set-Cookie header of
\* the response itself
Reply(status, error, details, debug_headers, data, setCookie) ==
  [status |-> status,
   body |-> [error |-> error, details |-> details, debug_headers |-> debug_headers,
             data |-> data],
   setCookie |-> setCookie]

NoSnippet == [kind |-> "none"]
NoDebugHeaders == [present |-> FALSE]
DebugHeadersOf(headers) == [present |-> TRUE, map |-> headers]
NoJson == [tag |-> "absent"]

\* the catch block: { error: 'Proxy request failed', details: errorMessage,
\* debug_headers: odooResponseHeaders } with status 500
ProxyRequestFailed(name, message, headers) ==
  Reply(500, "Proxy request failed",
        [kind |-> "message",
         message |-> IF name = "AbortError" THEN <<"Request to Odoo server timed out.">>
                     ELSE IF includes(message, "ECONNREFUSED")
                     THEN <<"Connection refused by Odoo server.">>
                     ELSE message],
        DebugHeadersOf(headers), NoJson, NoCookie)

\* a version that lets the rejection of the fetch escape
ProxyThrows(req, u) ==
  [status |-> 0,
   body |-> [error |-> "uncaught", details |-> NoSnippet,
             debug_headers |-> NoDebugHeaders, data |-> NoJson],
   setCookie |-> NoCookie]

\* the fetch of the target was rejected: the catch block answers
Rejected(req, u) == ProxyRequestFailed(u.name, u.message, NoUpstreamHeaders)

\* the Cookie header of the outbound request: part_004 forwards the cookie
\* header of the incoming request when it is truthy, route.ts sends
\* Content-Type only
forwardedHeaders(version, req) ==
  IF version = "part_004" /\ req.cookie.present /\ req.cookie.str # <<>>
  THEN req.cookie
  ELSE NoCookie

\* targetUrl.startsWith('http://') || targetUrl.startsWith('https://')
ValidScheme(targetUrl) ==
  startsWith(targetUrl.str, "http://") \/ startsWith(targetUrl.str, "https://")

\* POST up to its fetch: the body of the request is parsed and validated;
\* the handler answers at once or sends the outbound request
BeforeFetch(version, req) ==
  IF ~req.wellformed
  THEN [sends |-> FALSE,
        reply |-> ProxyRequestFailed("SyntaxError", <<"Unexpected token">>, NoUpstreamHeaders)]
  ELSE IF ~req.targetUrl.present \/ req.targetUrl.str = <<>> \/ ~req.payload.present
  THEN [sends |-> FALSE,
        reply |-> Reply(400, "Missing targetUrl or payload for proxy", NoSnippet,
                        NoDebugHeaders, NoJson, NoCookie)]
  ELSE IF ~ValidScheme(req.targetUrl)
  THEN [sends |-> FALSE,
        reply |-> Reply(400, "Invalid targetUrl format", NoSnippet,
                        NoDebugHeaders, NoJson, NoCookie)]
  ELSE [sends |-> TRUE,
        request |-> [method |-> "POST", url |-> req.targetUrl,
                     cookie |-> forwardedHeaders(version, req)]]

\* contentType && contentType.includes("application/json")
IsJson(contentType) ==
  /\ contentType.present
  /\ contentType.str # <<>>
  /\ includes(contentType.str, "application/json")

\* a version that passes the whole body on
WholeBody(text) == text

\* textResponse.substring(0, 500)
Snippet(text) == substring(text, SNIPPET_LENGTH)

\* POST after its fetch has settled with u: the rejection is caught; a JSON
\* answer is parsed and forwarded with the captured headers (part_004 also
\* copies them to the headers of its own response); any other answer
\* becomes a structured error with the status, a snippet and the headers
AfterFetch(version, req, u) ==
  IF u.kind = "reject"
  THEN [parsed |-> FALSE, reply |-> Rejected(req, u)]
  ELSE IF IsJson(u.headers.contentType)
  THEN IF ~u.valid
       THEN [parsed |-> TRUE,
             reply |-> ProxyRequestFailed("SyntaxError", <<"Unexpected token">>, u.headers)]
       ELSE [parsed |-> TRUE,
             reply |-> Reply(u.status,
                             IF u.json.tag = "object" THEN u.json.error ELSE "absent",
                             IF u.json.tag = "object" /\ u.json.details # <<>>
                             THEN [kind |-> "message", message |-> u.json.details]
                             ELSE NoSnippet,
                             DebugHeadersOf(u.headers), u.json,
                             IF version = "part_004" THEN u.headers.setCookie ELSE NoCookie)]
  ELSE [parsed |-> FALSE,
        reply |-> Reply(u.status, "Odoo server responded with non-JSON content",
                        [kind |-> "snippet", text |-> Snippet(u.text)],
                        DebugHeadersOf(u.headers), NoJson, NoCookie)]

\* one of the two versions of the route is what the application serves
Deploy(version) ==
  /\ relaypc = "down"
  /\ route' = version
  /\ relaypc' = "idle"
  /\ UNCHANGED <<request, outbound, upstream, reply, parsedJson, jar>>
  /\ UNCHANGED <<txs, nextId, activeSession, pushVars, queueVars, storeVars, authVars>>

\* a request arrives and POST runs up to its fetch or to its early answer
Receive(req) ==
  /\ relaypc = "idle"
  /\ request' = req
  /\ LET before == BeforeFetch(route, req)
     IN  IF before.sends
         THEN /\ outbound' = Append(outbound, before.request)
              /\ relaypc' = "fetching"
              /\ UNCHANGED reply
         ELSE /\ reply' = before.reply
              /\ relaypc' = "replied"
              /\ UNCHANGED outbound
  /\ UNCHANGED <<route, upstream, parsedJson, jar>>
  /\ UNCHANGED <<txs, nextId, activeSession, pushVars, queueVars, storeVars, authVars>>

\* the browser sends a request of the page to the relay, which is of the
\* same origin: the cookie of the application goes with it
PageRequest(client) ==
  /\ client = "push" => activeSession # NoSession
  /\ client = "auth" => activeSession = NoSession
  /\ Receive([client |-> client, wellformed |-> TRUE, targetUrl |-> PageUrl,
              payload |-> [present |-> TRUE], cookie |-> jar])

\* any other caller of the relay
OtherRequest(req) ==
  /\ req.client = "other"
  /\ Receive(req)

\* the fetch of the target settles with u and POST runs to its end
Answer(u) ==
  /\ relaypc = "fetching"
  /\ upstream' = u
  /\ LET after == AfterFetch(route, request, u)
     IN  /\ reply' = after.reply
         /\ parsedJson' = after.parsed
  /\ relaypc' = "replied"
  /\ UNCHANGED <<route, request, outbound, jar>>
  /\ UNCHANGED <<txs, nextId, activeSession, pushVars, queueVars, storeVars, authVars>>

\* the relay's response as testUhhConnection sees it
AsAuthResponse(rep) ==
  [kind |-> "http", ok |-> rep.status \in 200..299, parsed |-> TRUE,
   body |-> [debug_headers |->
               IF ~rep.body.debug_headers.present THEN NoHeaders
               ELSE IF rep.body.debug_headers.map.setCookie.present
               THEN [tag |-> "object", key |-> "set-cookie",
                     value |-> [tag |-> "string",
                                str |-> rep.body.debug_headers.map.setCookie.str]]
               ELSE [tag |-> "object", key |-> "content-type",
                     value |-> [tag |-> "string", str |-> <<>>]],
             error |-> IF rep.body.error \in {"absent", "object"} THEN rep.body.error
                       ELSE "string",
             result |-> IF rep.body.data.tag = "object" THEN rep.body.data.result
                        ELSE [tag |-> "absent"]]]

\* the response reaches the browser, which keeps the cookie it sets; for an
\* authentication request testUhhConnection and the rest of
\* handleTestConnection run on it
Deliver ==
  /\ relaypc = "replied"
  /\ jar' = IF reply.setCookie.present THEN reply.setCookie ELSE jar
  /\ IF request.client = "auth"
     THEN LET ret == testUhhConnection(AsAuthResponse(reply))
          IN  /\ uhh_session_id' = IF ret.wrote THEN ret.session ELSE uhh_session_id
              /\ uhh_user_details' = IF ret.wrote THEN ret.details ELSE uhh_user_details
              /\ activeSession' =
                   IF ret.result.success /\ ret.result.sessionIdFromHeader # Null
                      /\ ret.result.data
                   THEN ret.result.sessionIdFromHeader
                   ELSE IF ~ret.result.success THEN NoSession ELSE activeSession
     ELSE UNCHANGED <<activeSession, storeVars>>
  /\ relaypc' = "idle"
  /\ request' = NoRequest
  /\ outbound' = <<>>
  /\ upstream' = NoAnswer
  /\ reply' = NoReply
  /\ parsedJson' = FALSE
  /\ UNCHANGED route
  /\ UNCHANGED <<txs, nextId, pushVars, queueVars, authVars>>

RelayInit ==
  /\ Init
  /\ activeSession = NoSession
  /\ pushBatchSize = 1

RelayNext ==
  \/ \E version \in Routes : Deploy(version)
  \/ \E client \in {"auth", "push"} : PageRequest(client)
  \/ \E req \in Requests : OtherRequest(req)
  \/ \E u \in UpstreamAnswers : Answer(u)
  \/ Deliver

RelaySpec == RelayInit /\ [][RelayNext]_vars

\* ============================================================== claims
\* the status of the stored record with the given id
StatusOf(list, id) == (CHOOSE t \in Range(list) : t.id = id).status

\* the ids of the records stored before and after a step whose status the
\* step changed
Changed ==
  {id \in Ids(txs) \cap Ids(txs') : StatusOf(txs, id) # StatusOf(txs', id)}

\* steps of invocation p
Invoked(p) ==
  /\ pc[p] \in {"idle", "done"}
  /\ <<pc'[p], outcome'[p], attempt'[p], resps'[p]>> # <<pc[p], outcome[p], attempt[p], resps[p]>>
Selects(p) == pc[p] \in {"idle", "done"} /\ pc'[p] = "await"
Answered(p) == pc[p] = "await" /\ Len(resps'[p]) = Len(resps[p]) + 1
AnsweredWith(p, positive) == Answered(p) /\ resps'[p] = Append(resps[p], positive)
Retries(p) == pc[p] = "wait" /\ pc'[p] = "await"

\* C1: a stored status changes only in the step in which a cycle handles a
\* positively acknowledged submission (HTTP-OK with the success marker), only
\* for records of that cycle's batch and only to 'uploaded'; handling an
\* HTTP-OK answer without the marker, a non-OK answer or a transport error
\* changes no stored status.
C1_UploadedOnlyOnAck ==
  [][/\ \A id \in Changed :
          /\ StatusOf(txs', id) = "uploaded"
          /\ \E p \in Procs : AnsweredWith(p, TRUE) /\ id \in Ids(batchToPush[p])
      /\ \A p \in Procs : AnsweredWith(p, FALSE) => txs' = txs]_vars

\* C1 witness: a cycle has ended Uploaded on its second answer after a first
\* failed one, and a stored record is 'uploaded'
C1_Witness ==
  \E p \in Procs :
    /\ pc[p] = "done" /\ outcome[p] = "Uploaded"
    /\ resps[p] = <<FALSE, TRUE>>
    /\ \E i \in 1..Len(txs) : txs[i].status = "uploaded"

\* C2: at most one push cycle is in flight at a time.
C2_OneCycleAtATime ==
  \A p, q \in Procs : p # q => ~(Active(p) /\ Active(q))

C5_BatchCount ==
  [][\A p \in Procs :
       LET N == Len(NotUploaded(txs))
           k == pushBatchSize
       IN  /\ Selects(p) =>
                /\ Len(batchToPush'[p]) = Min(k, N)
                /\ batchToPush'[p] = SubSeq(NotUploaded(txs), 1, Min(k, N))
           /\ AnsweredWith(p, TRUE) =>
                /\ Changed \subseteq Ids(batchToPush[p])
                /\ ~foreign[p] =>
                     /\ Cardinality(Changed) = Min(k, N)
                     /\ Changed = Ids(batchToPush[p])
                     /\ Len(txs') = Len(txs)
                     /\ \A i \in 1..Len(txs) :
                           IF txs[i].id \in Changed
                           THEN txs'[i] = [txs[i] EXCEPT !.status = "uploaded"]
                           ELSE txs'[i] = txs[i]
           /\ AnsweredWith(p, FALSE) => Changed = {} /\ txs' = txs]_vars

\* C5 witness: with batch size 1 and two records stored, a cycle has been
\* acknowledged and exactly one of the two records is 'uploaded'
C5_Witness ==
  /\ pushBatchSize = 1
  /\ Len(txs) = 2
  /\ txs[1].status = "uploaded" /\ txs[2].status = "not_uploaded"
  /\ \E p \in Procs : pc[p] = "done" /\ outcome[p] = "Uploaded"
  /\ nextId = 3 /\ \A q \in Procs : ~Active(q)

\* C6: the first submission of a cycle carries the batch selected at its
\* start, every retry carries again what the first submission carried, and
\* the cycle's batch does not change while the cycle is in flight.
C6_SameBatch ==
  [][\A p \in Procs :
       /\ Selects(p) =>
            sent'[p] = <<OdooFormat(Take(NotUploaded(txs), pushBatchSize))>>
       /\ Retries(p) => sent'[p] = Append(sent[p], sent[p][1])
       /\ (Active(p) /\ pc'[p] \in {"await", "wait"}) =>
            batchToPush'[p] = batchToPush[p]]_vars

\* C6 witness: a cycle has made its retry after the list was written by
\* someone else, and a selection made now would differ from its batch
C6_Witness ==
  \E p \in Procs :
    /\ Len(sent[p]) = 2
    /\ foreign[p]
    /\ OdooFormat(SelectBatch(txs, pushBatchSize)) # sent[p][2]

\* C7: a selection made after a cycle ended Failed, with no acknowledged push
\* and no deletion in between, contains every record that cycle had selected.
C7_StableSelection ==
  [][\A p \in Procs :
       (Selects(p) /\ lastFailed.valid) =>
          Range(lastFailed.ids) \subseteq Ids(batchToPush'[p])]_vars

\* C8: an invocation submits only when a stored record is 'not_uploaded';
\* an invocation that passes the session and busy guards with no such record
\* ends NothingToDo, and ending NothingToDo happens only then, with nothing
\* submitted, the list unchanged and the busy flag cleared; an acknowledgement
\* whose batch holds every pending record leaves no pending record.
C8_NothingToDo ==
  [][\A p \in Procs :
       /\ Selects(p) => Len(SelectSeq(txs, LAMBDA t : t.status = "not_uploaded")) > 0
       /\ (Invoked(p) /\ pc'[p] = "done"
             /\ rendered.activeSession # NoSession /\ ~rendered.isPushing) =>
            /\ outcome'[p] = "NothingToDo"
            /\ \A i \in 1..Len(txs) : txs[i].status # "not_uploaded"
            /\ txs' = txs /\ sent'[p] = <<>> /\ attempt'[p] = 0
            /\ isPushing' = FALSE
       /\ (outcome'[p] = "NothingToDo" /\ outcome[p] # "NothingToDo") =>
            /\ \A i \in 1..Len(txs) : txs[i].status # "not_uploaded"
            /\ txs' = txs /\ sent'[p] = <<>>
       /\ (AnsweredWith(p, TRUE)
             /\ \A i \in 1..Len(txs) :
                   txs[i].status = "not_uploaded" => txs[i].id \in Ids(batchToPush[p])) =>
            \A i \in 1..Len(txs') : txs'[i].status = "uploaded"]_vars

\* C8 witness: one invocation was acknowledged, the one after it ended
\* NothingToDo, and the stored records are all 'uploaded'
C8_Witness ==
  /\ \E p, q \in Procs :
       /\ pc[p] = "done" /\ outcome[p] = "Uploaded"
       /\ pc[q] = "done" /\ outcome[q] = "NothingToDo"
  /\ Len(txs) > 0
  /\ \A i \in 1..Len(txs) : txs[i].status = "uploaded"

\* C9: once the session was logged out during a cycle's retry wait, that
\* cycle makes no further submission and changes no stored status.
C9_NoRetryAfterLogout ==
  [][\A p \in Procs :
       afterLogout[p] =>
         /\ Len(sent'[p]) <= Len(sent[p])
         /\ Answered(p) => Changed = {}]_vars

\* the id sequences updateStatus can be called with on the stored list
IdSeqs == {IdSeq(SelectSeq(txs, LAMBDA t : t.id \in S)) : S \in SUBSET Ids(txs)}

\* C10: for the stored list, every id sequence and every status, a second
\* updateStatus call leaves the list of the first call and reports 0 changes.
C10_Idempotent ==
  \A ids \in IdSeqs, st \in UploadStatus :
    LET first == updateAttendanceTransactionStatus(txs, ids, st)
        second == updateAttendanceTransactionStatus(first.list, ids, st)
    IN  second.list = first.list /\ second.updatedCount = 0

\* C11: the upload status is one-way.  In every step, a record that stays
\* stored and was 'uploaded' is still 'uploaded'; a record that enters the
\* store carries a fresh id, so that no removed record comes back; and the
\* status of a stored record changes only in a step in which a push cycle
\* handles an answer, and only for records of that cycle's batch.
C11_OneWay ==
  [][/\ \A id \in Ids(txs) \cap Ids(txs') :
          StatusOf(txs, id) = "uploaded" => StatusOf(txs', id) = "uploaded"
     /\ \A id \in Ids(txs') \ Ids(txs) : id >= nextId
     /\ Changed # {} =>
          \E p \in Procs : Answered(p) /\ Changed \subseteq Ids(batchToPush[p])]_vars

\* C11 witness: record 1 was uploaded by a cycle, record 2 was enqueued
\* afterwards and is the batch of a later cycle now in flight, and record 1 is
\* still 'uploaded'
C11_Witness ==
  /\ Len(txs) = 2
  /\ \E i, j \in 1..2 :
       /\ txs[i].id = 1 /\ txs[i].status = "uploaded"
       /\ txs[j].id = 2 /\ txs[j].status = "not_uploaded"
  /\ \E p, q \in Procs :
       /\ pc[p] = "done" /\ outcome[p] = "Uploaded" /\ resps[p] = <<TRUE>>
       /\ pc[q] = "await" /\ IdSeq(batchToPush[q]) = <<2>>

\* steps of queue call k: it executes the statement named
Executes(k, statement) == Statement(k) = statement /\ qpc'[k] # qpc[k]
Adds(k) == Executes(k, "setItem") /\ qop[k].name = "addAttendanceTransaction"
Updates(k) == Executes(k, "setItem") /\ qop[k].name = "updateAttendanceTransactionStatus"

\* the records the write of addAttendanceTransaction by call k drops: those of
\* the stored list and the new one that the list written does not hold
Evicted(k) ==
  {t \in Range(txs) \cup {qop[k].newTransaction} : t.id \notin Ids(txs')}

\* C12: when addAttendanceTransaction drops records to keep the retention
\* bound, it drops no 'not_uploaded' record while an 'uploaded' record stays
\* stored.
C12_UploadedEvictedFirst ==
  [][\A k \in Callers :
       (Adds(k) /\ \E t \in Evicted(k) : t.status = "not_uploaded") =>
          \A i \in 1..Len(txs') : txs'[i].status # "uploaded"]_vars

IsSortedDesc(list) ==
  \A i \in 1..Len(list) - 1 : list[i].transaction_time >= list[i + 1].transaction_time

C14_CriticalSection ==
  [][\A k \in Callers :
       /\ Executes(k, "setItem") => currentTransactions[k] = txs
       /\ Updates(k) =>
            /\ Len(txs') = Len(txs)
            /\ \A i \in 1..Len(txs) :
                 \/ txs'[i] = txs[i]
                 \/ /\ txs[i].id \in Range(qop[k].transactionIds)
                    /\ txs'[i] = [txs[i] EXCEPT !.status = qop[k].newStatus]
       /\ Adds(k) =>
            /\ \A t \in Range(txs) : t \in Range(txs') \/ t \in Evicted(k)
            /\ Evicted(k) # {} => Len(txs) = MAX_TRANSACTIONS_IN_STORAGE]_vars

\* C14 witness: updateAttendanceTransactionStatus is between its read and its
\* write of a batch while an addAttendanceTransaction call is pending
C14_Witness ==
  \E k, j \in Callers :
    /\ qop[k].name = "updateAttendanceTransactionStatus"
    /\ Statement(k) = "setItem"
    /\ Len(currentTransactions[k]) > 0
    /\ qop[j].name = "addAttendanceTransaction"
    /\ qpc[j] = 1

\* the two lists hold the same records in the same order, up to the status
\* of the records whose ids are in idSet, which is newStatus or unchanged
SameButStatus(before, after, idSet, newStatus) ==
  /\ Len(after) = Len(before)
  /\ \A i \in 1..Len(before) :
       /\ after[i].id = before[i].id
       /\ after[i].employee_id = before[i].employee_id
       /\ after[i].transaction_type = before[i].transaction_type
       /\ after[i].transaction_time = before[i].transaction_time
       /\ after[i].source_type = before[i].source_type
       /\ after[i].device_id = before[i].device_id
       /\ after[i].status # before[i].status =>
            before[i].id \in idSet /\ after[i].status = newStatus

\* C15: every step of a push cycle leaves the stored list as it was up to
\* the status of records of the cycle's batch; for every list that gets
\* stored, every id sequence and every status, the list
\* updateAttendanceTransactionStatus would write holds the same records in the same order with the same id and
\* payload fields, the status changed for given ids only; and the stored
\* records have distinct ids.
C15_FrameOfUpdate ==
  [][/\ \A p \in Procs :
          (Invoked(p) \/ Retries(p) \/ Answered(p)) =>
             SameButStatus(txs, txs', Ids(batchToPush[p]), "uploaded")
     /\ txs' # txs =>
          \A ids \in IdSeqs', st \in UploadStatus :
            SameButStatus(txs', updateAttendanceTransactionStatus(txs', ids, st).list,
                          Range(ids), st)
     /\ \A i, j \in 1..Len(txs') : i # j => txs'[i].id # txs'[j].id]_vars

\* C15 witness: of two stored records with different payloads, a cycle with
\* batch size 1 has uploaded the newer one after a retry, and the older one
\* is stored behind it, still 'not_uploaded'
C15_Witness ==
  /\ pushBatchSize = 1
  /\ Len(txs) = 2
  /\ txs[1].transaction_type = "check-out" /\ txs[1].transaction_time = 2
  /\ txs[1].status = "uploaded"
  /\ txs[2].transaction_type = "check-in" /\ txs[2].transaction_time = 1
  /\ txs[2].status = "not_uploaded"
  /\ \E p \in Procs :
       pc[p] = "done" /\ outcome[p] = "Uploaded" /\ resps[p] = <<FALSE, TRUE>>

\* C16: the stored list changes only by a write of a queue call; the
\* statement a call executes right after its write, before any other call
\* runs, is the dispatch of the change event; a call dispatches only after it
\* has written, and the listener then loads the list as written; so whenever
\* no call is running the listener has loaded the stored list.
C16_NotifiedAfterWrite ==
  [][/\ txs' # txs =>
          \E k \in Callers : Executes(k, "setItem") \/ Executes(k, "removeItem")
     /\ \A k \in Callers :
          /\ (Executes(k, "setItem") \/ Executes(k, "removeItem")) =>
                Statement(k)' = "dispatchEvent" /\ running' = k
          /\ Executes(k, "dispatchEvent") =>
                /\ qpc[k] > 1
                /\ Statements(qop[k].name)[qpc[k] - 1] \in {"setItem", "removeItem"}
                /\ listened' = txs
     /\ running' = 0 => listened' = txs']_vars

\* C16 witness: an add and an update have returned, no call is running, and
\* the listener has loaded the stored list with its uploaded record
C16_Witness ==
  /\ running = 0
  /\ \E k, j \in Callers :
       /\ qop[k] = [name |-> "updateAttendanceTransactionStatus"]
       /\ qop[j] = [name |-> "addAttendanceTransaction"]
       /\ qpc[k] = 0 /\ qpc[j] = 0
  /\ Len(txs) > 0
  /\ listened = txs
  /\ \E i \in 1..Len(listened) : listened[i].status = "uploaded"

\* the step in which testUhhConnection handles the relay's answer and returns
Authenticates == authpc = "fetching" /\ authpc' = "returned"

\* the relay delivered a JSON-RPC answer of the remote server: HTTP-OK with a
\* body that parses
Relayed(r) == r.kind = "http" /\ r.ok /\ r.parsed

\* the cookie strings of the Set-Cookie header of an answer, under either
\* spelling of the header name
HeaderCookies(r) ==
  IF r.body.debug_headers.tag = "object"
     /\ r.body.debug_headers.key \in {"set-cookie", "Set-Cookie"}
  THEN LET v == r.body.debug_headers.value
       IN  IF v.tag = "array" THEN Range(v.arr) ELSE {v.str}
  ELSE {}

\* the values of the session_id cookies an answer carries
SessionCookieValues(r) ==
  UNION {{str[i].value : i \in {j \in 1..Len(str) : str[j].name = "session_id"}} :
           str \in HeaderCookies(r)}

\* the usable ones: neither 'false' nor empty
UsableCookieValues(r) == SessionCookieValues(r) \ {"false", ""}

\* the session id of the body of an answer, when it has one
BodyToken(r) ==
  IF r.body.result.tag = "object" THEN r.body.result.session_id ELSE Undefined

\* C17: when the relayed answer has no error and carries a session_id cookie
\* whose value is neither 'false' nor empty, testUhhConnection succeeds and
\* the token stored and returned is that cookie value, whatever session_id
\* the body carries; a successful attempt stores the body's session_id only
\* when the answer carries no usable cookie value.
C17_CookieFirst ==
  [][Authenticates =>
       LET r == response'
       IN  /\ (Relayed(r) /\ r.body.error = "absent" /\ UsableCookieValues(r) # {}) =>
                /\ result'.success
                /\ uhh_session_id' \in UsableCookieValues(r)
                /\ result'.sessionIdFromHeader = uhh_session_id'
                /\ uhh_user_details'.present
           /\ (result'.success /\ UsableCookieValues(r) = {}) =>
                uhh_session_id' = BodyToken(r)
           /\ (result'.success /\ uhh_session_id' \notin UsableCookieValues(r)) =>
                UsableCookieValues(r) = {}]_vars

\* C17 witness: the answer carried the cookie session_id=tokA as the second
\* of two Set-Cookie strings and the session id tokB in its body, and the
\* attempt has succeeded with tokA stored
C17_Witness ==
  /\ authpc = "returned"
  /\ Relayed(response)
  /\ response.body.debug_headers.tag = "object"
  /\ response.body.debug_headers.key = "Set-Cookie"
  /\ response.body.debug_headers.value =
       [tag |-> "array", arr |-> <<<<[name |-> "frontend_lang", value |-> "en_US"]>>,
                                   <<[name |-> "session_id", value |-> "tokA"]>>>>]
  /\ BodyToken(response) = "tokB"
  /\ result.success
  /\ uhh_session_id = "tokA"

\* a parsed answer of the relay whose body has a JSON-RPC error object
HasErrorObject(r) == r.kind = "http" /\ r.parsed /\ r.body.error = "object"

\* the rest of handleTestConnection runs
Finishes == authpc = "returned" /\ authpc' = "idle"

\* C18: when the answer contains a JSON-RPC error object, testUhhConnection
\* fails and writes neither uhh_session_id nor uhh_user_details, whatever
\* session_id cookie or result.session_id the answer carries; a relayed
\* answer is reported as "Authentication failed", and handleTestConnection
\* then leaves no active session and writes nothing either.
C18_ErrorRejected ==
  [][/\ (Authenticates /\ HasErrorObject(response')) =>
          /\ ~result'.success
          /\ result'.sessionIdFromHeader = Null
          /\ UNCHANGED storeVars
          /\ Relayed(response') => result'.message = "Authentication failed"
     /\ (Finishes /\ HasErrorObject(response)) =>
          /\ activeSession' = NoSession
          /\ UNCHANGED storeVars]_vars

\* C18 witness: the answer had an error object together with the usable
\* cookie session_id=tokA and the body session id tokB; the attempt was
\* rejected and neither token is in the store
C18_Witness ==
  /\ authpc = "returned"
  /\ Relayed(response)
  /\ HasErrorObject(response)
  /\ UsableCookieValues(response) = {"tokA"}
  /\ BodyToken(response) = "tokB"
  /\ ~result.success
  /\ result.message = "Authentication failed"
  /\ uhh_session_id \notin {"tokA", "tokB"}

\* a relayed answer with no error and no session token in either place: no
\* usable session_id cookie, and no or an empty result.session_id
NoTokenAnywhere(r) ==
  /\ Relayed(r)
  /\ r.body.error = "absent"
  /\ UsableCookieValues(r) = {}
  /\ BodyToken(r) \in {Undefined, ""}

\* C19: when the relayed answer has no error and no session token in the
\* Set-Cookie header or in result.session_id, testUhhConnection fails with
\* the "Session ID not found" outcome, which is neither the success nor the
\* "Authentication failed" outcome and is returned in no other case; nothing
\* is written to the store and handleTestConnection leaves no active session.
C19_MissingToken ==
  [][/\ (Authenticates /\ NoTokenAnywhere(response')) =>
          /\ ~result'.success
          /\ result'.message = "Session ID not found"
          /\ result'.message \notin {"Authentication successful", "Authentication failed"}
          /\ UNCHANGED storeVars
     /\ (Authenticates /\ result'.message = "Session ID not found") =>
          NoTokenAnywhere(response')
     /\ (Finishes /\ NoTokenAnywhere(response)) =>
          /\ activeSession' = NoSession
          /\ UNCHANGED storeVars]_vars

\* C19 witness: the answer had no error, the cookie session_id=false and a
\* result without a session id; the attempt has returned the missing-token
\* outcome
C19_Witness ==
  /\ authpc = "returned"
  /\ NoTokenAnywhere(response)
  /\ SessionCookieValues(response) = {"false"}
  /\ response.body.result.tag = "object"
  /\ ~result.success
  /\ result.message = "Session ID not found"

\* a relayed answer without error whose session_id cookie is 'false' or empty
UnusableCookie(r) ==
  /\ Relayed(r)
  /\ r.body.error = "absent"
  /\ SessionCookieValues(r) # {}
  /\ SessionCookieValues(r) \subseteq {"false", ""}

\* C20: a session_id cookie that is 'false' or empty is never taken as the
\* session token: no authentication attempt leaves 'false' or the empty
\* string as the stored token, and with such a cookie the attempt stores the
\* session id of the body or ends with the "Session ID not found" outcome.
C20_FalseNeverAccepted ==
  [][Authenticates =>
       /\ uhh_session_id' \notin {"false", ""}
       /\ UnusableCookie(response') =>
            \/ result'.success /\ uhh_session_id' = BodyToken(response')
            \/ ~result'.success /\ result'.message = "Session ID not found"]_vars

\* C21: the password lives for one authentication attempt: when
\* handleTestConnection has finished, after a success or after any of the
\* failures, the password field is empty, and the password is never a value
\* of the store.
C21_PasswordCleared ==
  [][/\ Finishes => password' = NoPassword
     /\ uhh_session_id' \notin Passwords
     /\ uhh_user_details'.present => uhh_user_details'.username \notin Passwords]_vars

\* the relay could not be reached, answered with a status that is not ok, or
\* answered with a body that does not parse
TransportFailure(r) == r.kind = "throw" \/ ~r.ok \/ ~r.parsed

\* the messages of the transport and relay failures
ProxyOrNetwork ==
  {"Client-side connection error", "Failed to parse response from proxy",
   "Proxy or Odoo Server error"}

\* the messages of all five failure branches
FailureMessages ==
  ProxyOrNetwork \cup {"Authentication failed", "Session ID not found"}

\* C22: testUhhConnection always returns a result: each of the five failures
\* (fetch rejected, relay status not ok, body not parseable, JSON-RPC error,
\* no token) comes back as success = false with the message of its branch
\* and never as an exception; a transport or relay failure is reported with
\* one of the proxy/network messages and leaves the store as it was; and an
\* attempt sends exactly one request to the relay.
C22_FailuresAreValues ==
  [][/\ Authenticates =>
          LET r == response'
          IN  /\ result'.returned
              /\ result'.success <=> result'.message = "Authentication successful"
              /\ ~result'.success => result'.message \in FailureMessages
              /\ TransportFailure(r) =>
                   /\ ~result'.success
                   /\ result'.message \in ProxyOrNetwork
                   /\ UNCHANGED storeVars
              /\ (~result'.success /\ ~TransportFailure(r)) =>
                   result'.message \notin ProxyOrNetwork
              /\ fetches' = 1
     /\ Finishes => fetches = 1 /\ result.returned
     /\ fetches' <= 1]_vars

\* C22 witness: the relay answered with a status that is not ok and a body
\* holding an error object and a usable session cookie; the attempt has
\* returned the proxy failure after its one request, and nothing is stored
C22_Witness ==
  /\ authpc = "returned"
  /\ response.kind = "http"
  /\ ~response.ok
  /\ HasErrorObject(response)
  /\ UsableCookieValues(response) = {"tokA"}
  /\ result.returned
  /\ ~result.success
  /\ result.message = "Proxy or Odoo Server error"
  /\ fetches = 1
  /\ uhh_session_id = NoSession

\* C27: whenever no authentication attempt is under way (after the startup
\* restore, after a finished attempt, after a logout) the page shows an
\* active session exactly when a session token is stored, and the two hold
\* the same token; this includes the success whose answer has a session
\* cookie and no result object.
C27_SessionsAgree ==
  authpc = "idle" =>
    /\ activeSession # NoSession <=> uhh_session_id # NoSession
    /\ activeSession = uhh_session_id

\* the relay sends its outbound request
Forwards == relaypc = "idle" /\ relaypc' = "fetching"

\* the session_id cookies of a cookie header
SessionIdsOf(cookie) ==
  IF cookie.present
  THEN {cookie.str[i].value : i \in {j \in 1..Len(cookie.str) : cookie.str[j].name = "session_id"}}
  ELSE {}

\* C23: the relay sends the cookies of the incoming request as the Cookie
\* header of its outbound request whenever the incoming request has any, and
\* sends no Cookie header otherwise; so the push the page submits with an
\* active session reaches the remote server with that session as its
\* session_id cookie.
C23_CookieForwarded ==
  [][Forwards =>
       LET out == outbound'[Len(outbound')]
           req == request'
       IN  /\ (req.cookie.present /\ req.cookie.str # <<>>) => out.cookie = req.cookie
           /\ ~(req.cookie.present /\ req.cookie.str # <<>>) => out.cookie = NoCookie
           /\ req.client = "push" => SessionIdsOf(out.cookie) = {activeSession}]_vars

\* the relay's fetch settles and the handler answers
Answers == relaypc = "fetching" /\ relaypc' = "replied"

\* the content type of the remote answer is not JSON: there is none, or it
\* does not contain application/json
NotJson(u) ==
  \/ ~u.headers.contentType.present
  \/ \A i \in 1..Len(u.headers.contentType.str) :
       u.headers.contentType.str[i] # "application/json"

\* C24: when the content type of the remote answer is not JSON, the relay
\* does not parse the body as JSON; it answers with the status of the remote
\* answer and a structured error that carries the first characters of the
\* raw body, at most the snippet length of them, and the captured headers.
C24_NonJsonSnippet ==
  [][(Answers /\ upstream'.kind = "http" /\ NotJson(upstream')) =>
       /\ ~parsedJson'
       /\ reply'.status = upstream'.status
       /\ reply'.body.error = "Odoo server responded with non-JSON content"
       /\ reply'.body.details.kind = "snippet"
       /\ Len(reply'.body.details.text) <= SNIPPET_LENGTH
       /\ Len(reply'.body.details.text) = Min(Len(upstream'.text), SNIPPET_LENGTH)
       /\ \A i \in 1..Len(reply'.body.details.text) :
            reply'.body.details.text[i] = upstream'.text[i]
       /\ reply'.body.debug_headers = [present |-> TRUE, map |-> upstream'.headers]
       /\ reply'.body.data = NoJson]_vars

\* C24 witness: the remote server answered 500 with an HTML body longer than
\* the snippet length and a cookie; the relay has answered 500 with the cut
\* snippet and the headers
C24_Witness ==
  /\ relaypc = "replied"
  /\ upstream.kind = "http"
  /\ upstream.status = 500
  /\ upstream.headers.contentType = [present |-> TRUE, str |-> <<"text/html">>]
  /\ upstream.headers.setCookie.present
  /\ Len(upstream.text) > SNIPPET_LENGTH
  /\ ~parsedJson
  /\ reply.status = 500
  /\ Len(reply.body.details.text) = SNIPPET_LENGTH
  /\ reply.body.debug_headers.map = upstream.headers

\* the relay accepts the request: its body parses, targetUrl and payload are
\* there and targetUrl begins with http:// or https://
Accepted(req) ==
  /\ req.wellformed
  /\ req.targetUrl.present
  /\ req.payload.present
  /\ Len(req.targetUrl.str) > 0
  /\ req.targetUrl.str[1] \in {"http://", "https://"}

\* what tells the answer to a failed fetch from the others: status 500, the
\* relay's own error and no captured header
CouldNotReach(rep) ==
  /\ rep.status = 500
  /\ rep.body.error = "Proxy request failed"
  /\ rep.body.debug_headers = [present |-> TRUE, map |-> NoUpstreamHeaders]

\* C25: when the fetch of the target fails (refused, timed out, anything
\* else) the relay answers with a structured error and raises nothing, and
\* no answer it gives after the target was reached looks like that one; a
\* targetUrl that begins with neither http:// nor https:// is answered with
\* status 400 and no outbound request; an accepted request leads to exactly
\* one outbound POST by the time the relay has answered.
C25_StructuredFailure ==
  [][/\ (Answers /\ upstream'.kind = "reject") =>
          /\ reply'.status # 0
          /\ CouldNotReach(reply')
          /\ reply'.body.details.kind = "message"
     /\ (Answers /\ upstream'.kind = "http") => ~CouldNotReach(reply')
     /\ (relaypc = "idle" /\ relaypc' # "idle") =>
          /\ Accepted(request') <=> relaypc' = "fetching"
          /\ (request'.wellformed /\ request'.targetUrl.present /\ request'.payload.present
              /\ request'.targetUrl.str # <<>> /\ ~Accepted(request')) =>
               /\ reply'.status = 400
               /\ reply'.body.error = "Invalid targetUrl format"
               /\ outbound' = <<>>
     /\ (relaypc = "replied" /\ relaypc' = "idle") =>
          /\ Len(outbound) = IF Accepted(request) THEN 1 ELSE 0
          /\ \A i \in 1..Len(outbound) :
               outbound[i].method = "POST" /\ outbound[i].url = request.targetUrl]_vars

\* C25 witness: the connection to the target was refused; the relay has
\* answered 500 'Proxy request failed' with the refusal message after its
\* one outbound request
C25_Witness ==
  /\ relaypc = "replied"
  /\ upstream.kind = "reject"
  /\ upstream.message = <<"connect ", "ECONNREFUSED", " 10.0.0.1:8069">>
  /\ upstream.name = "TypeError"
  /\ CouldNotReach(reply)
  /\ reply.body.details.message = <<"Connection refused by Odoo server.">>
  /\ Len(outbound) = 1

\* C26: a push invocation that has set isPushing returns: it makes at most
\* MAX_RETRIES submissions, and on each way out (nothing to push,
\* acknowledged, retries exhausted, also when submissions threw) isPushing is
\* cleared; with no cycle in flight isPushing is false, so the page comes
\* back to a render in which an invocation is not answered 'already in
\* progress'.
C26_TerminatesAndClears ==
  /\ \A p \in Procs : Active(p) ~> pc[p] = "done"
  /\ [](\A p \in Procs : Len(sent[p]) <= MAX_RETRIES /\ attempt[p] <= MAX_RETRIES)
  /\ []((\A p \in Procs : ~Active(p)) => ~isPushing)
  /\ [][\A p \in Procs :
          /\ (Active(p) /\ pc'[p] = "done") =>
               ~isPushing' /\ outcome'[p] \in {"Uploaded", "Failed"}
          /\ (Invoked(p) /\ outcome'[p] = "NothingToDo") => ~isPushing']_vars
  /\ rendered.isPushing ~> ~rendered.isPushing

\* C26 witness: a cycle whose submissions all failed has returned after
\* MAX_RETRIES of them and isPushing is false again
C26_Witness ==
  \E p \in Procs :
    /\ pc[p] = "done"
    /\ outcome[p] = "Failed"
    /\ attempt[p] = MAX_RETRIES
    /\ Len(resps[p]) = MAX_RETRIES
    /\ \A q \in Procs : ~Active(q)
    /\ ~isPushing

\* C28: what a queue operation did while a cycle was awaiting its answer
\* survives the end of the cycle: the step that handles the answer keeps
\* every stored record in its place, changes nothing but the status of
\* stored records of the selected batch, and only to 'uploaded' on an
\* acknowledgement, so a record enqueued meanwhile is still stored with the
\* status it had; when no record of the batch is stored any more (the list
\* was cleared), the acknowledgement writes nothing.
C28_QueueSurvivesCycle ==
  [][\A p \in Procs :
       Answered(p) =>
         /\ Len(txs') = Len(txs)
         /\ \A i \in 1..Len(txs) :
              /\ txs'[i].id = txs[i].id
              /\ txs[i].id \notin Ids(batchToPush[p]) => txs'[i] = txs[i]
              /\ txs'[i] # txs[i] =>
                   /\ AnsweredWith(p, TRUE)
                   /\ txs'[i] = [txs[i] EXCEPT !.status = "uploaded"]
         /\ Ids(txs) \cap Ids(batchToPush[p]) = {} =>
              /\ txs' = txs
              /\ \A q \in Procs \ {p} : foreign'[q] = foreign[q]]_vars

\* C28 witness: with a batch size of two, a cycle that selected the one
\* pending record is awaiting its answer and a second record, enqueued since
\* the selection, is stored 'not_uploaded'
C28_Witness ==
  \E p \in Procs :
    /\ pc[p] = "await"
    /\ pushBatchSize = 2
    /\ Len(batchToPush[p]) = 1
    /\ foreign[p]
    /\ \E i \in 1..Len(txs) :
         /\ txs[i].id \notin Ids(batchToPush[p])
         /\ txs[i].status = "not_uploaded"
    /\ Ids(batchToPush[p]) \subseteq Ids(txs)

\* C29: when the acknowledgement reports a processed count, the step that
\* handles it marks no more records 'uploaded' than that count
C29_MarkedWithinCount ==
  [][\A p \in Procs : \A r \in Responses :
       /\ HandleResponse(p, r)
       /\ Acknowledged(r)
       /\ r.result.tag = "object"
       /\ r.result.processed_count >= 0
       => Cardinality({id \in Changed : StatusOf(txs', id) = "uploaded"})
            <= r.result.processed_count]_vars

\* the number of stored records still to upload
Pending(list) == Len(NotUploaded(list))

\* C30: with the session kept, cycles triggered again and again, every
\* submission acknowledged and nothing enqueued, the queue drains in
\* ceil(N / batchSize) acknowledged cycles: every acknowledged cycle uploads
\* the next Min(batchSize, pending) pending records, eventually no stored
\* record is 'not_uploaded' any more, and then a cycle reports NothingToDo
C30_QueueDrains ==
  /\ [][\A p \in Procs :
          Answered(p) =>
            Pending(txs') = Pending(txs) - Min(pushBatchSize, Pending(txs))]_vars
  /\ <>[](Pending(txs) = 0)
  /\ <>(\E p \in Procs : outcome[p] = "NothingToDo")

\* under the same premises the queue does drain, and NothingToDo follows
EventuallyDrained ==
  /\ <>[](Pending(txs) = 0)
  /\ <>(\E p \in Procs : outcome[p] = "NothingToDo")

====
